---- MODULE Spec2Model ----
(***************************************************************************)
(* Ticker discovery service (ticker_discovery_service.py): candidate       *)
(* extraction from story text, the TTL cache, the Yahoo search client and  *)
(* the Discover / Resolve request handlers with their asyncio fan-out.     *)
(*                                                                         *)
(* Text is a sequence of one-character strings; a Python str is modelled   *)
(* by the tuple of its characters, so that upper(), strip(), the regular   *)
(* expressions and sorted() are computed character by character.           *)
(***************************************************************************)
EXTENDS Integers, Sequences, FiniteSets, TLC

\* ------------------------------------------------------------------------
\* Characters (the ASCII subset the model's texts are written in)
\* ------------------------------------------------------------------------
UpperSeq == <<"A","B","C","D","E","F","G","H","I","J","K","L","M","N","O","P","Q","R","S","T","U","V","W","X","Y","Z">>
LowerSeq == <<"a","b","c","d","e","f","g","h","i","j","k","l","m","n","o","p","q","r","s","t","u","v","w","x","y","z">>
DigitSeq == <<"0","1","2","3","4","5","6","7","8","9">>

SeqRange(s) == {s[i] : i \in 1..Len(s)}

UpperLetters == SeqRange(UpperSeq)
LowerLetters == SeqRange(LowerSeq)
Digits == SeqRange(DigitSeq)
\* \w of the re module restricted to ASCII; \s restricted to space, tab, newline
WordChars == UpperLetters \cup LowerLetters \cup Digits \cup {"_"}
Whitespace == {" ", "\t", "\n"}

\* code-point order of the characters, as sorted() compares strings
AsciiOrder ==
    <<"\t", "\n", " ", "$", "&", "(", ")", ",", ".", "/">> \o DigitSeq
        \o <<":", ";">> \o UpperSeq \o <<"_">> \o LowerSeq

Ord(c) == CHOOSE i \in 1..Len(AsciiOrder) : AsciiOrder[i] = c

\* str < str of Python: lexicographic by code point, a proper prefix is smaller
RECURSIVE StrLess(_, _)
StrLess(a, b) ==
    IF b = <<>> THEN FALSE
    ELSE IF a = <<>> THEN TRUE
    ELSE IF Head(a) # Head(b) THEN Ord(Head(a)) < Ord(Head(b))
    ELSE StrLess(Tail(a), Tail(b))

\* sorted(set_of_strings): ascending sequence of the elements of S
RECURSIVE sorted(_)
sorted(S) ==
    IF S = {} THEN <<>>
    ELSE LET m == CHOOSE x \in S : \A y \in S \ {x} : StrLess(x, y)
         IN <<m>> \o sorted(S \ {m})

upperChar(c) ==
    IF c \in LowerLetters
    THEN UpperSeq[CHOOSE i \in 1..26 : LowerSeq[i] = c]
    ELSE c

lowerChar(c) ==
    IF c \in UpperLetters
    THEN LowerSeq[CHOOSE i \in 1..26 : UpperSeq[i] = c]
    ELSE c

\* str.upper(), str.lower()
upper(s) == [i \in 1..Len(s) |-> upperChar(s[i])]
lower(s) == [i \in 1..Len(s) |-> lowerChar(s[i])]

\* str.strip(): leading and trailing whitespace removed
strip(s) ==
    LET solid == { i \in 1..Len(s) : s[i] \notin Whitespace }
    IN  IF solid = {} THEN <<>>
        ELSE SubSeq(s, CHOOSE i \in solid : \A j \in solid : i <= j,
                       CHOOSE i \in solid : \A j \in solid : i >= j)

\* ------------------------------------------------------------------------
\* regex + helpers
\* ------------------------------------------------------------------------
STOP ==
    { <<"A","I">>, <<"C","E","O">>, <<"E","P","S">>, <<"E","T","F">>,
      <<"G","D","P">>, <<"U","S","D">>, <<"I","P","O">>, <<"Y","O","Y">>,
      <<"E","B","I","T">>, <<"E","B","I","T","D","A">>, <<"F","C","F">>, <<"F","E","D">>,
      <<"S","E","C">>, <<"C","P","I">>, <<"P","P","I">>, <<"P","E">>,
      <<"E","V">>, <<"P","S">>, <<"G","A","A","P">>, <<"A","D","R">>,
      <<"O","T","C">>, <<"B","T","C">>, <<"E","T","H">>,
      <<"E","U","R">>, <<"N","E","T">>, <<"F","I","G">> }

CharAt(t, i) == IF i \in 1..Len(t) THEN t[i] ELSE ""

IsWordAt(t, i) == i \in 1..Len(t) /\ t[i] \in WordChars

\* \b at the gap in front of position p (between t[p-1] and t[p])
WordBoundary(t, p) == IsWordAt(t, p - 1) # IsWordAt(t, p)

\* number of consecutive [A-Z] from position i, counted up to max
RunLen(t, i, max) ==
    CHOOSE n \in 0..max :
        /\ \A j \in 0..(n - 1) : CharAt(t, i + j) \in UpperLetters
        /\ (n = max \/ CharAt(t, i + n) \notin UpperLetters)

NoMatch == [ok |-> FALSE, grp |-> <<>>, end |-> 0]

\* [A-Z]{lo,5}(?:\.[A-Z]{1,2})? at position s, then \b when needB.  The
\* regex engine tries the longest letter run first and, for each run, the
\* suffix of two letters, of one letter, then no suffix; the first
\* alternative whose tail condition holds is the match.  n letters, m suffix
\* letters; end is the position after the match.
SymEnd(s, n, m) == s + n + (IF m > 0 THEN m + 1 ELSE 0)

SymRank(n, m) == (5 - n) * 3 + (2 - m)

SymMatch(t, s, lo, needB) ==
    LET r == RunLen(t, s, 5)
        opts == { nm \in (lo..5) \X (0..2) :
                    /\ nm[1] <= r
                    /\ nm[2] > 0 => /\ CharAt(t, s + nm[1]) = "."
                                    /\ RunLen(t, s + nm[1] + 1, 2) >= nm[2]
                    /\ needB => WordBoundary(t, SymEnd(s, nm[1], nm[2])) }
    IN  IF opts = {} THEN [ok |-> FALSE, n |-> 0, m |-> 0, end |-> 0]
        ELSE LET b == CHOOSE x \in opts :
                        \A o \in opts : SymRank(x[1], x[2]) <= SymRank(o[1], o[2])
             IN [ok |-> TRUE, n |-> b[1], m |-> b[2], end |-> SymEnd(s, b[1], b[2])]

\* re.fullmatch(r"[A-Z]{1,5}(?:\.[A-Z]{1,2})?", p)
FullMatchSym(p) ==
    \E nm \in (1..5) \X (0..2) :
        /\ RunLen(p, 1, 5) >= nm[1]
        /\ nm[2] > 0 => /\ CharAt(p, nm[1] + 1) = "."
                        /\ RunLen(p, nm[1] + 2, 2) >= nm[2]
        /\ SymEnd(1, nm[1], nm[2]) = Len(p) + 1

\* CASHTAG = \$([A-Z]{1,5}(?:\.[A-Z]{1,2})?)\b
CASHTAG(t, s) ==
    IF CharAt(t, s) # "$" THEN NoMatch
    ELSE LET m == SymMatch(t, s + 1, 1, TRUE)
         IN IF m.ok
            THEN [ok |-> TRUE, grp |-> SubSeq(t, s + 1, m.end - 1), end |-> m.end]
            ELSE NoMatch

\* PAREN = \(([A-Z]{1,5})(?::[A-Z]+)?\)
PAREN(t, s) ==
    IF CharAt(t, s) # "(" THEN NoMatch
    ELSE LET r == RunLen(t, s + 1, 5)
             \* n letters, k letters of the exchange code (0: no ":CODE")
             opts == { nk \in (1..5) \X (0..Len(t)) :
                        /\ nk[1] <= r
                        /\ IF nk[2] = 0
                           THEN CharAt(t, s + 1 + nk[1]) = ")"
                           ELSE /\ CharAt(t, s + 1 + nk[1]) = ":"
                                /\ RunLen(t, s + 2 + nk[1], Len(t)) >= nk[2]
                                /\ CharAt(t, s + 2 + nk[1] + nk[2]) = ")" }
         IN IF opts = {} THEN NoMatch
            ELSE LET b == CHOOSE x \in opts :
                            \A o \in opts : x[1] > o[1] \/ (x[1] = o[1] /\ x[2] >= o[2])
                 IN [ok |-> TRUE, grp |-> SubSeq(t, s + 1, s + b[1]),
                     end |-> s + 2 + b[1] + (IF b[2] > 0 THEN b[2] + 1 ELSE 0)]

\* UPPERC = \b([A-Z]{2,5})(?:\.[A-Z]{1,2})?\b   (group 1 excludes the suffix)
UPPERC(t, s) ==
    IF ~WordBoundary(t, s) THEN NoMatch
    ELSE LET m == SymMatch(t, s, 2, TRUE)
         IN IF m.ok
            THEN [ok |-> TRUE, grp |-> SubSeq(t, s, s + m.n - 1), end |-> m.end]
            ELSE NoMatch

UrlWords ==
    { <<"/","q","u","o","t","e","/">>,
      <<"/","s","y","m","b","o","l","/">>,
      <<"/","t","i","c","k","e","r","/">> }

StartsAt(t, s, w) == s + Len(w) - 1 <= Len(t) /\ SubSeq(t, s, s + Len(w) - 1) = w

\* URL_TKR = /(quote|symbol|ticker)/([A-Z]{1,5}(?:\.[A-Z]{1,2})?)   (group 2)
URL_TKR(t, s) ==
    IF \A w \in UrlWords : ~StartsAt(t, s, w) THEN NoMatch
    ELSE LET w == CHOOSE x \in UrlWords : StartsAt(t, s, x)
             m == SymMatch(t, s + Len(w), 1, FALSE)
         IN IF m.ok
            THEN [ok |-> TRUE, grp |-> SubSeq(t, s + Len(w), m.end - 1), end |-> m.end]
            ELSE NoMatch

MatchAt(kind, t, s) ==
    CASE kind = "cashtag" -> CASHTAG(t, s)
      [] kind = "paren"   -> PAREN(t, s)
      [] kind = "url"     -> URL_TKR(t, s)
      [] kind = "allcaps" -> UPPERC(t, s)

\* pattern.finditer(t): the captured groups of the non-overlapping matches,
\* scanning left to right; the scan resumes where a match ended
RECURSIVE scan(_, _)
scan(ms, pos) ==
    LET starts == { p \in pos..Len(ms) : ms[p].ok }
    IN  IF starts = {} THEN <<>>
        ELSE LET p == CHOOSE x \in starts : \A y \in starts : x <= y
             IN <<ms[p].grp>> \o scan(ms, ms[p].end)

finditer(kind, t) == scan([p \in 1..Len(t) |-> MatchAt(kind, t, p)], 1)

\* html.unescape on the model's texts: the only character reference they
\* contain is "&amp;"
AmpEntity == <<"&","a","m","p",";">>

\* the characters of t at the positions K, in order
Pick(t, K) ==
    LET InK(x) == x[1] \in K
        kept == SelectSeq([i \in 1..Len(t) |-> <<i, t[i]>>], InK)
    IN  [i \in 1..Len(kept) |-> kept[i][2]]

unescape(s) ==
    LET ents == { i \in 1..Len(s) : StartsAt(s, i, AmpEntity) }
        drop == { i + d : i \in ents, d \in 1..(Len(AmpEntity) - 1) }
    IN  Pick(s, (1..Len(s)) \ drop)

\* re.sub(r"\s+", " ", s): every whitespace run becomes one space
collapse(s) ==
    LET first == { i \in 1..Len(s) :
                     s[i] \notin Whitespace \/ i = 1 \/ s[i - 1] \notin Whitespace }
        kept == Pick(s, first)
    IN  [i \in 1..Len(kept) |-> IF kept[i] \in Whitespace THEN " " ELSE kept[i]]

\* _clean that trims the block but keeps its line breaks
_clean_lines(s) == strip(unescape(s))

_clean(s) == strip(collapse(unescape(s)))

SplitDelims == {",", ";", "/"} \cup Whitespace

\* re.split(r"[,\s;/]+", s): the pieces between delimiter runs (empty pieces
\* at the ends included, as re.split returns them)
resplit(s) ==
    LET isD(i) == i \in 1..Len(s) /\ s[i] \in SplitDelims
        starts == { i \in 1..Len(s) : ~isD(i) /\ (i = 1 \/ isD(i - 1)) }
        nth(k) == CHOOSE i \in starts : Cardinality({j \in starts : j < i}) = k - 1
        stop(i) == CHOOSE e \in i..Len(s) :
                      /\ \A j \in i..e : ~isD(j)
                      /\ (e = Len(s) \/ isD(e + 1))
        toks == [k \in 1..Cardinality(starts) |-> SubSeq(s, nth(k), stop(nth(k)))]
    IN  IF s = <<>> THEN << <<>> >>
        ELSE (IF isD(1) THEN << <<>> >> ELSE <<>>) \o toks
                \o (IF isD(Len(s)) THEN << <<>> >> ELSE <<>>)

RECURSIVE keepSymbols(_)
keepSymbols(parts) ==
    IF parts = <<>> THEN <<>>
    ELSE LET p == upper(strip(Head(parts)))
         IN (IF FullMatchSym(p) THEN <<p>> ELSE <<>>) \o keepSymbols(Tail(parts))

_split_symbols(s) == keepSymbols(resplit(strip(s)))

\* position of the first non-whitespace character at or after p
skipWs(t, p) ==
    CHOOSE q \in p..(Len(t) + 1) :
        /\ \A j \in p..(q - 1) : t[j] \in Whitespace
        /\ (q = Len(t) + 1 \/ t[q] \notin Whitespace)

Verbs == << <<"k","e","e","p">>, <<"c","u","t">>, <<"s","e","l","l">> >>

\* \s*(keep|cut|sell)\s*:\s*(.+)$ with (?i), tried at position p of the
\* line.  The result carries group 1 lowered (action) and group 2 (rest).
\* When only whitespace follows the colon the engine gives the last
\* whitespace character back to (.+).
ActionAt(line, p) ==
    LET p1 == skipWs(line, p)
        vs == { i \in 1..Len(Verbs) : StartsAt(lower(line), p1, Verbs[i]) }
    IN  IF vs = {} THEN [ok |-> FALSE, action |-> <<>>, rest |-> <<>>]
        ELSE LET v  == Verbs[CHOOSE i \in vs : \A j \in vs : i <= j]
                 p3 == skipWs(line, p1 + Len(v))
                 p4 == skipWs(line, p3 + 1)
             IN IF CharAt(line, p3) # ":" \/ p3 = Len(line)
                THEN [ok |-> FALSE, action |-> <<>>, rest |-> <<>>]
                ELSE [ok |-> TRUE, action |-> v,
                      rest |-> IF p4 <= Len(line)
                               THEN SubSeq(line, p4, Len(line))
                               ELSE SubSeq(line, Len(line), Len(line))]

\* the pattern without its anchor: the first position of the line where it
\* matches
ACTION_RE_search(line) ==
    LET starts == { p \in 1..Len(line) : ActionAt(line, p).ok }
    IN  IF starts = {} THEN ActionAt(line, 1)
        ELSE ActionAt(line, CHOOSE p \in starts : \A r \in starts : p <= r)

\* ACTION = (?i)^\s*(keep|cut|sell)\s*:\s*(.+)$ applied with ACTION.match(line):
\* anchored at the start of the line
ACTION_RE(line) == ActionAt(line, 1)

\* str.capitalize()
capitalize(s) ==
    IF s = <<>> THEN <<>> ELSE <<upperChar(Head(s))>> \o lower(Tail(s))

\* str.isdigit() on the model's alphabet
isdigit(s) == s # <<>> /\ \A i \in 1..Len(s) : s[i] \in Digits

\* sep.join(parts)
RECURSIVE join(_, _)
join(sep, parts) ==
    IF parts = <<>> THEN <<>>
    ELSE IF Len(parts) = 1 THEN parts[1]
    ELSE parts[1] \o sep \o join(sep, Tail(parts))

\* s.split("\n")
splitLines(s) ==
    LET nls == { i \in 1..Len(s) : s[i] = "\n" }
        \* position of the k-th newline; 0 before the text, Len + 1 after it
        nl(k) == IF k = 0 THEN 0
                 ELSE IF k > Cardinality(nls) THEN Len(s) + 1
                 ELSE CHOOSE i \in nls : Cardinality({j \in nls : j < i}) = k - 1
    IN  [k \in 1..(Cardinality(nls) + 1) |-> SubSeq(s, nl(k - 1) + 1, nl(k) - 1)]

\* ------------------------------------------------------------------------
\* core detection for one story
\* ------------------------------------------------------------------------
\* A story is [url, title, excerpt, combined_text, comments], comments being
\* the sequence of the comment bodies; an absent (None) text is "".
\* candidates is the dict sym -> set of reasons, tallies the dict
\* sym -> [keep, cut, sell].

R_cashtag == <<"c","a","s","h","t","a","g">>
R_paren   == <<"p","a","r","e","n">>
R_url     == <<"u","r","l">>
R_allcaps == <<"a","l","l","c","a","p","s">>
ListPrefix == <<"l","i","s","t",":">>

\* add without the stop-list guard
add_unstopped(candidates, sym0, reason) ==
    LET sym == upper(sym0)
    IN  IF Len(sym) > 6 THEN candidates
        ELSE IF ~FullMatchSym(sym) THEN candidates
        ELSE [x \in DOMAIN candidates \cup {sym} |->
                (IF x \in DOMAIN candidates THEN candidates[x] ELSE {})
                    \cup (IF x = sym THEN {reason} ELSE {})]

\* detect_from_story.add(sym, reason)
add(candidates, sym0, reason) ==
    LET sym == upper(sym0)
    IN  IF Len(sym) > 6 THEN candidates
        ELSE IF sym \in STOP THEN candidates
        ELSE IF ~FullMatchSym(sym) THEN candidates
        ELSE [x \in DOMAIN candidates \cup {sym} |->
                (IF x \in DOMAIN candidates THEN candidates[x] ELSE {})
                    \cup (IF x = sym THEN {reason} ELSE {})]

RECURSIVE addAll(_, _, _)
addAll(candidates, syms, reason) ==
    IF syms = <<>> THEN candidates
    ELSE addAll(add(candidates, Head(syms), reason), Tail(syms), reason)

ZeroTally == [keep |-> 0, cut |-> 0, sell |-> 0]

\* bump counting every list as a keep list
bump_keep(tallies, sym, action) ==
    LET t == IF sym \in DOMAIN tallies THEN tallies[sym] ELSE ZeroTally
    IN  [x \in DOMAIN tallies \cup {sym} |->
            IF x = sym THEN [t EXCEPT !.keep = @ + 1] ELSE tallies[x]]

\* bump that marks the verb as seen instead of counting the occurrence
bump_flag(tallies, sym, action) ==
    LET t == IF sym \in DOMAIN tallies THEN tallies[sym] ELSE ZeroTally
        u == CASE action = Verbs[1] -> [t EXCEPT !.keep = 1]
               [] action = Verbs[2] -> [t EXCEPT !.cut = 1]
               [] action = Verbs[3] -> [t EXCEPT !.sell = 1]
    IN  [x \in DOMAIN tallies \cup {sym} |-> IF x = sym THEN u ELSE tallies[x]]

\* t = tallies.get(sym) or {...}; t[action] += 1; tallies[sym] = t
bump(tallies, sym, action) ==
    LET t == IF sym \in DOMAIN tallies THEN tallies[sym] ELSE ZeroTally
        u == CASE action = Verbs[1] -> [t EXCEPT !.keep = @ + 1]
               [] action = Verbs[2] -> [t EXCEPT !.cut = @ + 1]
               [] action = Verbs[3] -> [t EXCEPT !.sell = @ + 1]
    IN  [x \in DOMAIN tallies \cup {sym} |-> IF x = sym THEN u ELSE tallies[x]]

\* the inner loop over sym_list of one ACTION line; st = [c, t]
RECURSIVE listLoop(_, _, _)
listLoop(st, syms, action) ==
    IF syms = <<>> THEN st
    ELSE listLoop([c |-> add(st.c, Head(syms), ListPrefix \o capitalize(action)),
                   t |-> bump(st.t, Head(syms), action)],
                  Tail(syms), action)

\* the loop over joined.split("\n")
RECURSIVE actionLoop(_, _)
actionLoop(st, lines) ==
    IF lines = <<>> THEN st
    ELSE LET m == ACTION_RE(Head(lines))
         IN IF ~m.ok THEN actionLoop(st, Tail(lines))
            ELSE actionLoop(listLoop(st, _split_symbols(m.rest), m.action),
                            Tail(lines))

\* the loop over UPPERC.finditer(joined)
RECURSIVE allcapsLoop(_, _)
allcapsLoop(candidates, groups) ==
    IF groups = <<>> THEN candidates
    ELSE LET sym == upper(Head(groups))
         IN allcapsLoop(IF sym \notin STOP /\ Len(sym) <= 5 /\ ~isdigit(sym)
                        THEN add(candidates, sym, R_allcaps)
                        ELSE candidates,
                        Tail(groups))

EmptyDict == [x \in {} |-> {}]

blocksOf(s) == <<s.title, s.excerpt, s.combined_text>> \o s.comments

joinedOf(s) ==
    LET blocks == blocksOf(s)
    IN join(<<" ", "\n", " ">>, [i \in 1..Len(blocks) |-> _clean(blocks[i])])

\* cand_list, tallies_list and the returned dict
detect_result(s, c, t, syms, ticks) ==
    [url |-> s.url,
     title |-> s.title,
     candidates |-> [i \in 1..Len(syms) |->
                        [symbol |-> syms[i], reasons |-> sorted(c[syms[i]])]],
     tallies |-> [i \in 1..Len(ticks) |->
                    [ticker |-> ticks[i], keep |-> t[ticks[i]].keep,
                     cut |-> t[ticks[i]].cut, sell |-> t[ticks[i]].sell]]]

detect_sorted(s, c, t) == detect_result(s, c, t, sorted(DOMAIN c), sorted(DOMAIN t))

\* the ALLCAPS pass, after the ACTION pass left st = [c, t]
detect_allcaps(s, st, joined) ==
    detect_sorted(s, allcapsLoop(st.c, finditer("allcaps", joined)), st.t)

\* cashtags / parens / URL patterns, then the ACTION lists
detect_joined(s, joined) ==
    detect_allcaps(s,
        actionLoop([c |-> addAll(addAll(addAll(EmptyDict,
                                    finditer("cashtag", joined), R_cashtag),
                                    finditer("paren", joined), R_paren),
                                    finditer("url", joined), R_url),
                    t |-> EmptyDict],
                   splitLines(joined)),
        joined)

detect_from_story(s) == detect_joined(s, joinedOf(s))

\* ------------------------------------------------------------------------
\* JSON values (the response payloads and the records built from them)
\* ------------------------------------------------------------------------
\* None / null, a str, a list and a dict (a function from key names); every
\* value has the shape [t, v] so that any two values can be compared.
None == [t |-> "null", v |-> <<>>]
JStr(s) == [t |-> "str", v |-> s]
JList(items) == [t |-> "list", v |-> items]
JDict(f) == [t |-> "dict", v |-> f]

\* dict.get(k, default)
get(d, k, default) == IF k \in DOMAIN d.v THEN d.v[k] ELSE default

\* str(x) for the values a quote's "symbol" takes in the model
str(x) ==
    CASE x.t = "str"  -> x.v
      [] x.t = "null" -> <<"N","o","n","e">>
      [] x.t = "list" -> <<"[","]">>
      [] x.t = "dict" -> <<"{","}">>

\* ------------------------------------------------------------------------
\* simple cache (per-process)
\* ------------------------------------------------------------------------
_TTL == 900

VARIABLES
    now,        \* time.time(), in whole seconds
    _cache,     \* the dict _cache: key -> [ts, data]
    calls,      \* verify_symbol / resolve_name calls in flight outside req
    log,        \* history of the calls made through calls
    req         \* the request being handled by discover_n8n / resolve

vars == <<now, _cache, calls, log, req>>

\* cache_get with the entry already expired at an age of exactly _TTL
cache_get_early(cache, key, t) ==
    IF key \notin DOMAIN cache THEN None
    ELSE IF t - cache[key].ts >= _TTL THEN None
    ELSE cache[key].data

\* cache_get returning the stored payload whatever its age
cache_get_stale(cache, key, t) ==
    IF key \notin DOMAIN cache THEN None ELSE cache[key].data

\* cache_get(key): the value returned (None on a miss) ...
cache_get(cache, key, t) ==
    IF key \notin DOMAIN cache THEN None
    ELSE IF t - cache[key].ts > _TTL THEN None
    ELSE cache[key].data

\* cache_get whose hit restamps the entry with the time of the read
cache_get_pop_touch(cache, key, t) ==
    IF key \in DOMAIN cache /\ t - cache[key].ts > _TTL
    THEN [k \in DOMAIN cache \ {key} |-> cache[k]]
    ELSE [k \in DOMAIN cache |->
            IF k = key THEN [ts |-> t, data |-> cache[k].data] ELSE cache[k]]

\* ... and the dict it leaves behind (an expired entry is popped)
cache_get_pop(cache, key, t) ==
    IF key \in DOMAIN cache /\ t - cache[key].ts > _TTL
    THEN [k \in DOMAIN cache \ {key} |-> cache[k]]
    ELSE cache

\* cache_set(key, data)
cache_set(cache, key, data, t) ==
    [k \in DOMAIN cache \cup {key} |->
        IF k = key THEN [ts |-> t, data |-> data] ELSE cache[k]]

\* ------------------------------------------------------------------------
\* Yahoo search (verification/mapping)
\* ------------------------------------------------------------------------
yh_key(q) == <<"y","h",":">> \o q

\* What the awaited client.get / raise_for_status / r.json() can end in: a
\* parsed JSON payload, or an exception (transport error, timeout of the
\* 10 s client, non-success status)
Failures == {"transport", "timeout", "status"}

VerifiedRecord(q) ==
    JDict([symbol    |-> get(q, "symbol", None),
           shortname |-> get(q, "shortname", None),
           longname  |-> get(q, "longname", None),
           exchange  |-> get(q, "exchDisp", None),
           type      |-> get(q, "quoteType", None)])

\* the for-loop of verify_symbol / resolve_name over d.get("quotes", []):
\* the first quote that matches is returned; a d or a quote that is not a
\* dict raises AttributeError, quotes that is no list raises or yields
\* nothing, and every exception is caught and turned into None
firstQuote(d, Matches(_)) ==
    IF d.t # "dict" THEN None
    ELSE LET quotes == get(d, "quotes", JList(<<>>))
         IN IF quotes.t # "list" THEN None
            ELSE LET qs == quotes.v
                     \* the loop stops at the first quote that raises or matches
                     stops == { i \in 1..Len(qs) :
                                  qs[i].t # "dict" \/ Matches(qs[i]) }
                 IN IF stops = {} THEN None
                    ELSE LET i == CHOOSE x \in stops : \A y \in stops : x <= y
                         IN IF qs[i].t # "dict" THEN None
                            ELSE VerifiedRecord(qs[i])

NameTypes ==
    { <<"E","Q","U","I","T","Y">>, <<"E","T","F">>,
      <<"M","U","T","U","A","L","F","U","N","D">>,
      <<"I","N","D","E","X">>, <<"C","R","Y","P","T","O">> }

\* verify_symbol comparing the symbols as they are, case included
verify_result_exact(sym, d) ==
    LET Matches(q) == str(get(q, "symbol", JStr(<<>>))) = sym
    IN  firstQuote(d, Matches)

\* verify_symbol(sym), given what yahoo_search returned
verify_result(sym, d) ==
    LET Matches(q) == upper(str(get(q, "symbol", JStr(<<>>)))) = upper(sym)
    IN  firstQuote(d, Matches)

\* resolve_name(name), given what yahoo_search returned
resolve_result(name, d) ==
    LET Matches(q) == LET ty == get(q, "quoteType", None)
                      IN ty.t = "str" /\ ty.v \in NameTypes
    IN  firstQuote(d, Matches)

call_result(fn, q, d) ==
    IF fn = "verify_symbol" THEN verify_result(q, d) ELSE resolve_result(q, d)

\* got records what yahoo_search gave its caller: the cached payload
\* ("hit"), the fetched payload ("json") or the exception raised
NoGot == [kind |-> "", data |-> None]

\* start_step reading the cache under a key of the calling function,
\* "symbol:" + q for verify_symbol and "name:" + q for resolve_name
start_step_own_key(fn, q, cache, t) ==
    LET key == (IF fn = "verify_symbol"
                THEN <<"s","y","m","b","o","l",":">>
                ELSE <<"n","a","m","e",":">>) \o q
        hit == cache_get(cache, key, t)
    IN  IF hit # None
        THEN [st |-> "done", res |-> call_result(fn, q, hit),
              got |-> [kind |-> "hit", data |-> hit],
              cache |-> cache_get_pop(cache, key, t)]
        ELSE [st |-> "wait", res |-> None, got |-> NoGot,
              cache |-> cache_get_pop(cache, key, t)]

\* One step of yahoo_search(q) inside verify_symbol / resolve_name, up to
\* the first suspension: cache_get, then either the hit is returned and the
\* caller's loop runs (st "done"), or the HTTP request is issued and the
\* coroutine waits for it (st "wait").
start_step(fn, q, cache, t) ==
    LET key == yh_key(q)
        hit == cache_get(cache, key, t)
    IN  IF hit # None
        THEN [st |-> "done", res |-> call_result(fn, q, hit),
              got |-> [kind |-> "hit", data |-> hit],
              cache |-> cache_get_pop(cache, key, t)]
        ELSE [st |-> "wait", res |-> None, got |-> NoGot,
              cache |-> cache_get_pop(cache, key, t)]

\* finish_step with negative caching: a failed query is remembered as an
\* empty search result
finish_step_negative(fn, q, out, cache, t) ==
    IF out.kind = "json"
    THEN [res |-> call_result(fn, q, out.data),
          cache |-> cache_set(cache, yh_key(q), out.data, t)]
    ELSE [res |-> None,
          cache |-> cache_set(cache, yh_key(q), JDict([quotes |-> JList(<<>>)]), t)]

\* finish_step in which the first payload stored for a key stays (a later
\* answer for the key does not overwrite it)
finish_step_first_wins(fn, q, out, cache, t) ==
    IF out.kind = "json"
    THEN [res |-> call_result(fn, q, out.data),
          cache |-> IF yh_key(q) \in DOMAIN cache THEN cache
                    ELSE cache_set(cache, yh_key(q), out.data, t)]
    ELSE [res |-> None, cache |-> cache]

\* finish_step storing a payload only when the caller found a record in it
finish_step_found_only(fn, q, out, cache, t) ==
    IF out.kind = "json"
    THEN [res |-> call_result(fn, q, out.data),
          cache |-> IF call_result(fn, q, out.data) # None
                    THEN cache_set(cache, yh_key(q), out.data, t)
                    ELSE cache]
    ELSE [res |-> None, cache |-> cache]

\* The step that resumes yahoo_search when the awaited request ends with
\* outcome out: a payload is stored with cache_set and searched by the
\* caller, an exception is caught by the caller and nothing is stored.
finish_step(fn, q, out, cache, t) ==
    IF out.kind = "json"
    THEN [res |-> call_result(fn, q, out.data),
          cache |-> cache_set(cache, yh_key(q), out.data, t)]
    ELSE [res |-> None, cache |-> cache]

\* ------------------------------------------------------------------------
\* Bounds and input pools
\* ------------------------------------------------------------------------
MaxTicks == 1       \* clock advances per behaviour
MaxStories == 2     \* stories per Discover request
MaxConc == 2        \* concurrent calls when only calls are modelled
MaxCalls == 3       \* calls per behaviour when the call history is recorded
MaxFrags == 3       \* text fragments in the title of a composed story

AB == <<"A","B">>
NONE == <<"N","O","N","E">>

\* quote records the search service may return
QMatch ==
    JDict([symbol |-> JStr(<<"a","b">>), quoteType |-> JStr(<<"E","Q","U","I","T","Y">>),
           shortname |-> JStr(<<"A","b">>), exchDisp |-> JStr(<<"N","M","S">>)])
QMatch2 ==
    JDict([symbol |-> JStr(AB), quoteType |-> JStr(<<"E","T","F">>),
           shortname |-> JStr(<<"A","B","2">>)])
QOther ==
    JDict([symbol |-> JStr(<<"X","Y">>), quoteType |-> JStr(<<"O","P","T","I","O","N">>)])
QNoSym == JDict([quoteType |-> JStr(<<"E","Q","U","I","T","Y">>)])
QNullSym == JDict([symbol |-> None, quoteType |-> JStr(<<"I","N","D","E","X">>)])
QNone ==
    JDict([symbol |-> JStr(<<"N","o","n","e">>), quoteType |-> JStr(<<"E","Q","U","I","T","Y">>),
           longname |-> JStr(<<"N","o","n","e"," ","I","n","c">>)])

Quotes(qs) == JDict([quotes |-> JList(qs)])

Payloads ==
    { Quotes(<<QOther, QMatch, QMatch2, QNone>>),   \* matches after a non-match
      Quotes(<<QNoSym, QNullSym>>),           \* records without a usable symbol
      Quotes(<<>>),                           \* no quotes
      Quotes(<<JStr(<<"x">>), QMatch>>),      \* a quote that is no dict
      None }                                  \* the JSON document null

Outcomes ==
    { [kind |-> "json", data |-> p] : p \in Payloads }
        \cup { [kind |-> f, data |-> None] : f \in Failures }

\* what the recorded calls are answered: a payload with matches, one
\* without any record, the JSON null, a timeout and an error status
CallOutcomes ==
    { [kind |-> "json", data |-> p] :
          p \in { Quotes(<<QOther, QMatch, QMatch2, QNone>>), Quotes(<<>>), None } }
        \cup { [kind |-> f, data |-> None] : f \in {"timeout", "status"} }

Terms == {AB, NONE}
Fns == {"verify_symbol", "resolve_name"}

NoText == <<>>
Story(title, combined, comments) ==
    [url |-> <<"u">>, title |-> title, excerpt |-> NoText,
     combined_text |-> combined, comments |-> comments]

StoryPool ==
    { Story(<<"$","A","B"," ","u","p">>, NoText, <<>>),
      Story(<<"(","N","O","N","E",")"," ","E","T","F">>, <<"k","e","e","p",":","\n"," ","a","b">>, << <<"s","e","e"," ","/","q","u","o","t","e","/","A","B">> >>) }

TickerPool == { <<"a","b">>, NONE }
NamePool == { <<" ","A","B"," ">>, <<" ">>, NONE }

\* detect_from_story on the stories of the pool (evaluated once)
Detected == [s \in StoryPool |-> detect_from_story(s)]
\* an extraction whose output order depends on what the cache holds
detect_warm(s) ==
    IF DOMAIN _cache = {} THEN Detected[s]
    ELSE LET c == Detected[s].candidates
         IN [Detected[s] EXCEPT
               !.candidates = [i \in 1..Len(c) |-> c[Len(c) + 1 - i]]]
detect(s) == IF s \in StoryPool THEN Detected[s] ELSE detect_from_story(s)

BoundedSeqs(S, n) == UNION { [1..k -> S] : k \in 0..n }

\* Stories composed for the extraction alone: the title is a sequence of up
\* to MaxFrags fragments, followed by at most one comment
Fragments ==
    { <<"$">>, <<"(">>, <<")">>, <<"/","q","u","o","t","e","/">>,
      <<"K","e","e","p",":">>, <<"s","e","l","l",":">>,
      <<" ">>, <<"\n">>, <<",">>,
      <<"A","B">>, <<"a","b">>, <<"E","T","F">>,
      <<"A","B","C","D",".","E","F">> }
CommentPool ==
    { << <<"K","e","e","p",":"," ","A","B",","," ","a","b">> >>, <<>> }

RECURSIVE concat(_)
concat(frs) == IF frs = <<>> THEN <<>> ELSE Head(frs) \o concat(Tail(frs))

ScenarioText ==
    <<"$","N","V","D","A"," ","a","n","d"," ","(","O","X","Y",")"," ",
      "l","o","o","k"," ","s","t","r","o","n","g",","," ",
      "K","e","e","p",":"," ","N","V","D","A",","," ","A","A","P","L">>
ScenarioStory == Story(ScenarioText, NoText, <<>>)

\* a title of two lines with a sell list on the second, and a comment that
\* is a cut list
MultiLineText ==
    <<"A","B"," ","u","p","\n","S","e","l","l",":"," ","A","B",","," ","E","T","F">>
MultiLineStory ==
    Story(MultiLineText, NoText, << <<"c","u","t",":"," ","a","b">> >>)

ComposedStories ==
    { Story(concat(frs), NoText, cs) :
          frs \in BoundedSeqs(Fragments, MaxFrags), cs \in CommentPool }
        \cup {ScenarioStory, MultiLineStory}

\* ------------------------------------------------------------------------
\* State
\* ------------------------------------------------------------------------
IdleCall ==
    [fn |-> "", q |-> <<>>, st |-> "idle", res |-> None, got |-> NoGot, ix |-> 0]
NewCall(fn, q) ==
    [fn |-> fn, q |-> q, st |-> "new", res |-> None, got |-> NoGot, ix |-> 0]

IdleReq ==
    [pc |-> "idle", verify |-> FALSE, stories |-> <<>>,
     per_story |-> <<>>, union |-> <<>>,
     tickers |-> <<>>, names |-> <<>>, fan |-> <<>>,
     verified |-> <<>>, mapped |-> <<>>, allowed |-> <<>>]

\* the clock advances by the TTL or by one second more, so that an entry is
\* read at the ages 0, _TTL and _TTL + 1
TickSteps == {_TTL, _TTL + 1}
TicksOf(t) == t \div _TTL

InitCommon ==
    /\ now = 0
    /\ _cache = [k \in {} |-> None]
    /\ req = IdleReq

Init ==
    /\ InitCommon
    /\ calls = <<>>
    /\ log = <<>>

\* time passes between two steps of the event loop
Tick ==
    /\ TicksOf(now) < MaxTicks
    /\ \E d \in TickSteps : now' = now + d
    /\ UNCHANGED <<_cache, calls, log, req>>

\* ------------------------------------------------------------------------
\* verify_symbol / resolve_name calls made by concurrent handlers (they
\* run on one event loop and share _cache)
\* ------------------------------------------------------------------------
\* log[k] is the k-th call made: its function and argument, the time
\* t0 and the event number s0 of its start, whether it issued an external
\* query, what yahoo_search gave it (kind "pending" while it waits), its
\* result, and the time t1 and event number s1 of its return.  The events
\* (starts and returns) are numbered in the order they happen.
Returned == { k \in 1..Len(log) : log[k].got.kind # "pending" }
Events == Len(log) + Cardinality({ k \in Returned : log[k].queried })

LogEntry(fn, q, r) ==
    [fn |-> fn, q |-> q, t0 |-> now, s0 |-> Events + 1,
     queried |-> r.st = "wait",
     got |-> IF r.st = "wait" THEN [kind |-> "pending", data |-> None] ELSE r.got,
     res |-> r.res, t1 |-> now, s1 |-> IF r.st = "wait" THEN 0 ELSE Events + 1]

\* verify_symbol(q) / resolve_name(q) is called and runs up to its first
\* suspension (the slots are interchangeable: the lowest idle one is taken)
CallStart(i, fn, q) ==
    /\ calls[i].st = "idle"
    /\ \A j \in 1..(i - 1) : calls[j].st # "idle"
    /\ Len(log) < MaxCalls
    /\ LET r == start_step(fn, q, _cache, now)
       IN /\ _cache' = r.cache
          /\ calls' = IF r.st = "wait"
                      THEN [calls EXCEPT ![i] =
                              [fn |-> fn, q |-> q, st |-> "wait", res |-> None,
                               got |-> NoGot,
                               ix |-> Len(log) + 1]]
                      ELSE calls
          /\ log' = Append(log, LogEntry(fn, q, r))
    /\ UNCHANGED <<now, req>>

\* the awaited HTTP request of call i ends
CallFinish(i, out) ==
    /\ calls[i].st = "wait"
    /\ LET c == calls[i]
           r == finish_step(c.fn, c.q, out, _cache, now)
       IN /\ _cache' = r.cache
          /\ calls' = [calls EXCEPT ![i] = IdleCall]
          /\ log' = [log EXCEPT ![c.ix] =
                            [@ EXCEPT !.got = out, !.res = r.res,
                                      !.t1 = now, !.s1 = Events + 1]]
    /\ UNCHANGED <<now, req>>

\* ------------------------------------------------------------------------
\* endpoints
\* ------------------------------------------------------------------------
Truthy(x) == x # None

\* the truthy results taken from the last call of the fan-out to the first
results_reversed(fan) ==
    SelectSeq([i \in 1..Len(fan) |-> fan[Len(fan) + 1 - i].res], Truthy)

\* [x for x in res if x]
results(fan) == SelectSeq([i \in 1..Len(fan) |-> fan[i].res], Truthy)

\* x["symbol"].upper() raises AttributeError unless the symbol is a str
CanUpper(xs) == \A i \in 1..Len(xs) : xs[i].v.symbol.t = "str"

\* sorted({x["symbol"].upper() for x in xs})
allowed_of(xs) == sorted({ upper(xs[i].v.symbol.v) : i \in 1..Len(xs) })

symbols(ps) == { ps.candidates[i].symbol : i \in 1..Len(ps.candidates) }

\* attach without the membership filter on the story's own candidates
attach_unfiltered(ps, allowed) ==
    [url |-> ps.url, title |-> ps.title,
     candidates |-> ps.candidates, tallies |-> ps.tallies,
     allowed_tickers |-> allowed]

\* ps["allowed_tickers"] = sorted({c["symbol"] for c in ps["candidates"]
\*                                 if c["symbol"] in allowed})
attach(ps, allowed) ==
    [url |-> ps.url, title |-> ps.title,
     candidates |-> ps.candidates, tallies |-> ps.tallies,
     allowed_tickers |-> sorted(symbols(ps) \cap SeqRange(allowed))]

\* discover_n8n taking the union from the last story alone
discover_n8n_last(stories, verify) ==
    /\ req.pc = "idle"
    /\ LET per_story == [i \in 1..Len(stories) |-> detect(stories[i])]
           union == IF stories = <<>> THEN <<>>
                    ELSE sorted(symbols(per_story[Len(stories)]))
       IN req' = IF verify /\ union # <<>>
                 THEN [IdleReq EXCEPT
                         !.pc = "verify", !.verify = verify,
                         !.stories = stories, !.per_story = per_story, !.union = union,
                         !.fan = [i \in 1..Len(union) |->
                                    NewCall("verify_symbol", union[i])]]
                 ELSE [IdleReq EXCEPT
                         !.pc = "discovered", !.verify = verify,
                         !.stories = stories,
                         !.per_story = [i \in 1..Len(stories) |->
                                          attach(per_story[i], union)],
                         !.union = union, !.allowed = union]
    /\ UNCHANGED <<now, _cache, calls, log>>

\* discover_n8n verifying the union whether or not the request asks for it
discover_n8n_always(stories, verify) ==
    /\ req.pc = "idle"
    /\ LET per_story == [i \in 1..Len(stories) |-> detect(stories[i])]
           union == sorted(UNION { symbols(per_story[i]) : i \in 1..Len(stories) })
       IN req' = IF union # <<>>
                 THEN [IdleReq EXCEPT
                         !.pc = "verify", !.verify = verify,
                         !.stories = stories, !.per_story = per_story, !.union = union,
                         !.fan = [i \in 1..Len(union) |->
                                    NewCall("verify_symbol", union[i])]]
                 ELSE [IdleReq EXCEPT
                         !.pc = "discovered", !.verify = verify,
                         !.stories = stories,
                         !.per_story = [i \in 1..Len(stories) |->
                                          attach(per_story[i], union)],
                         !.union = union, !.allowed = union]
    /\ UNCHANGED <<now, _cache, calls, log>>

\* POST /discover_n8n, up to the await of asyncio.gather (or to the return
\* when nothing is to be verified)
discover_n8n(stories, verify) ==
    /\ req.pc = "idle"
    /\ LET per_story == [i \in 1..Len(stories) |-> detect(stories[i])]
           union == sorted(UNION { symbols(per_story[i]) : i \in 1..Len(stories) })
       IN req' = IF verify /\ union # <<>>
                 THEN [IdleReq EXCEPT
                         !.pc = "verify", !.verify = verify,
                         !.stories = stories, !.per_story = per_story, !.union = union,
                         !.fan = [i \in 1..Len(union) |->
                                    NewCall("verify_symbol", union[i])]]
                 ELSE [IdleReq EXCEPT
                         !.pc = "discovered", !.verify = verify,
                         !.stories = stories,
                         !.per_story = [i \in 1..Len(stories) |->
                                          attach(per_story[i], union)],
                         !.union = union, !.allowed = union]
    /\ UNCHANGED <<now, _cache, calls, log>>

\* resolve gathering the verify_symbol and the resolve_name calls together
resolve_together(tickers_in, names_in) ==
    /\ req.pc = "idle"
    /\ LET tickers == sorted({ upper(t) : t \in tickers_in })
           names == sorted({ strip(n) : n \in { m \in names_in :
                                                  m # <<>> /\ strip(m) # <<>> } })
       IN req' = IF tickers # <<>>
                 THEN [IdleReq EXCEPT
                         !.pc = "tickers", !.tickers = tickers, !.names = names,
                         !.fan = [i \in 1..Len(tickers) |->
                                    NewCall("verify_symbol", tickers[i])]
                                 \o [i \in 1..Len(names) |->
                                    NewCall("resolve_name", names[i])]]
                 ELSE IF names # <<>>
                 THEN [IdleReq EXCEPT
                         !.pc = "names", !.names = names,
                         !.fan = [i \in 1..Len(names) |->
                                    NewCall("resolve_name", names[i])]]
                 ELSE [IdleReq EXCEPT !.pc = "resolved"]
    /\ UNCHANGED <<now, _cache, calls, log>>

\* POST /resolve, up to its first await (or to the return)
resolve(tickers_in, names_in) ==
    /\ req.pc = "idle"
    /\ LET tickers == sorted({ upper(t) : t \in tickers_in })
           names == sorted({ strip(n) : n \in { m \in names_in :
                                                  m # <<>> /\ strip(m) # <<>> } })
       IN req' = IF tickers # <<>>
                 THEN [IdleReq EXCEPT
                         !.pc = "tickers", !.tickers = tickers, !.names = names,
                         !.fan = [i \in 1..Len(tickers) |->
                                    NewCall("verify_symbol", tickers[i])]]
                 ELSE IF names # <<>>
                 THEN [IdleReq EXCEPT
                         !.pc = "names", !.names = names,
                         !.fan = [i \in 1..Len(names) |->
                                    NewCall("resolve_name", names[i])]]
                 ELSE [IdleReq EXCEPT !.pc = "resolved"]
    /\ UNCHANGED <<now, _cache, calls, log>>

Gathering == req.pc \in {"verify", "tickers", "names"}

\* the task of fan-out call i runs up to its first suspension; gather
\* schedules the tasks in list order
FanStart(i) ==
    /\ Gathering
    /\ i \in 1..Len(req.fan)
    /\ req.fan[i].st = "new"
    /\ \A j \in 1..(i - 1) : req.fan[j].st # "new"
    /\ LET c == req.fan[i]
           r == start_step(c.fn, c.q, _cache, now)
       IN /\ _cache' = r.cache
          /\ req' = [req EXCEPT !.fan[i].st = r.st, !.fan[i].res = r.res,
                                !.fan[i].got = r.got]
    /\ UNCHANGED <<now, calls, log>>

\* the awaited HTTP request of fan-out call i ends
FanFinish(i, out) ==
    /\ Gathering
    /\ i \in 1..Len(req.fan)
    /\ req.fan[i].st = "wait"
    /\ LET c == req.fan[i]
           r == finish_step(c.fn, c.q, out, _cache, now)
       IN /\ _cache' = r.cache
          /\ req' = [req EXCEPT !.fan[i].st = "done", !.fan[i].res = r.res,
                                !.fan[i].got = out]
    /\ UNCHANGED <<now, calls, log>>

AllDone == \A i \in 1..Len(req.fan) : req.fan[i].st = "done"

\* discover_n8n resumes after asyncio.gather and returns (or raises)
DiscoverJoin ==
    /\ req.pc = "verify"
    /\ AllDone
    /\ LET verified == results(req.fan)
       IN req' = IF ~CanUpper(verified)
                 THEN [req EXCEPT !.pc = "raised", !.verified = verified]
                 ELSE LET allowed == allowed_of(verified)
                      IN [req EXCEPT
                            !.pc = "discovered",
                            !.verified = verified,
                            !.allowed = allowed,
                            !.per_story = [i \in 1..Len(req.per_story) |->
                                             attach(req.per_story[i], allowed)]]
    /\ UNCHANGED <<now, _cache, calls, log>>

\* the tail of resolve: allowed = sorted({x["symbol"].upper() ...}); return
resolve_tail(r) ==
    IF ~CanUpper(r.verified \o r.mapped)
    THEN [r EXCEPT !.pc = "raised"]
    ELSE [r EXCEPT !.pc = "resolved",
                   !.allowed = allowed_of(r.verified \o r.mapped)]

\* resolve resumes after the gather of the verify_symbol calls
TickersJoin ==
    /\ req.pc = "tickers"
    /\ AllDone
    /\ LET r == [req EXCEPT !.verified = results(req.fan)]
       IN req' = IF r.names # <<>>
                 THEN [r EXCEPT !.pc = "names",
                                !.fan = [i \in 1..Len(r.names) |->
                                           NewCall("resolve_name", r.names[i])]]
                 ELSE resolve_tail(r)
    /\ UNCHANGED <<now, _cache, calls, log>>

\* resolve resumes after the gather of the resolve_name calls
NamesJoin ==
    /\ req.pc = "names"
    /\ AllDone
    /\ req' = resolve_tail([req EXCEPT !.mapped = results(req.fan)])
    /\ UNCHANGED <<now, _cache, calls, log>>

Finished == req.pc \in {"discovered", "resolved", "raised"}

\* the response (or the error) has left; the next request arrives
Return ==
    /\ Finished
    /\ req' = IdleReq
    /\ UNCHANGED <<now, _cache, calls, log>>

Next ==
    \/ Tick
    \/ \E stories \in BoundedSeqs(StoryPool, MaxStories), verify \in BOOLEAN :
          discover_n8n(stories, verify)
    \/ \E ts \in SUBSET TickerPool, ns \in SUBSET NamePool : resolve(ts, ns)
    \/ \E i \in 1..Cardinality(Terms) : FanStart(i)
    \/ \E i \in 1..Cardinality(Terms), out \in Outcomes : FanFinish(i, out)
    \/ DiscoverJoin
    \/ TickersJoin
    \/ NamesJoin
    \/ Return

Spec == Init /\ [][Next]_vars

\* The verification client alone: MaxConc concurrent verify_symbol /
\* resolve_name calls, MaxCalls calls in all, each recorded in log
InitCalls ==
    /\ InitCommon
    /\ calls = [i \in 1..MaxConc |-> IdleCall]
    /\ log = <<>>

NextCalls ==
    \/ Tick
    \/ \E i \in DOMAIN calls, fn \in Fns, q \in Terms : CallStart(i, fn, q)
    \/ \E i \in DOMAIN calls, out \in CallOutcomes : CallFinish(i, out)

SpecCalls == InitCalls /\ [][NextCalls]_vars

\* One request at a time, under the scheduling the event loop and the HTTP
\* client guarantee: a task that can run is run, a coroutine whose gather is
\* complete is resumed, and a request that is still awaited when the
\* client's 10 s timeout expires ends in a timeout.  Nothing obliges the
\* search service to answer.
TimedOut == [kind |-> "timeout", data |-> None]

\* the service answers with a well-formed payload or a malformed one, or
\* it stalls until the client gives up
LiveOutcomes ==
    { [kind |-> "json", data |-> Quotes(<<QOther, QMatch, QMatch2, QNone>>)],
      [kind |-> "json", data |-> Quotes(<<QNoSym, QNullSym>>)],
      TimedOut }

NextLive ==
    \/ \E stories \in BoundedSeqs(StoryPool, MaxStories), verify \in BOOLEAN :
          discover_n8n(stories, verify)
    \/ \E ts \in SUBSET TickerPool, ns \in SUBSET NamePool : resolve(ts, ns)
    \/ \E i \in 1..Cardinality(Terms) : FanStart(i)
    \/ \E i \in 1..Cardinality(Terms), out \in LiveOutcomes : FanFinish(i, out)
    \/ DiscoverJoin
    \/ TickersJoin
    \/ NamesJoin
    \/ Return

\* the step the event loop takes next for the request, if the service
\* does not answer first
Progress ==
    \/ \E i \in 1..Cardinality(Terms) : FanStart(i)
    \/ \E i \in 1..Cardinality(Terms) : FanFinish(i, TimedOut)
    \/ DiscoverJoin
    \/ TickersJoin
    \/ NamesJoin

Fairness == WF_vars(Progress)

SpecLive == Init /\ [][NextLive]_vars /\ Fairness

\* The extraction alone: Discover requests without verification, each for
\* one composed story
NextExtract ==
    \/ req.pc = "idle" /\ \E s \in ComposedStories : discover_n8n(<<s>>, FALSE)
    \/ Return

SpecExtract == Init /\ [][NextExtract]_vars

(***************************************************************************)
(* Properties                                                              *)
(***************************************************************************)

allowedOf(ps) == SeqRange(ps.allowed_tickers)

\* C1: in every Discover response, each story's allowed_tickers is a subset
\* of that story's candidate symbols, and each story's candidate symbols
\* are a subset of union_candidates.
C1_SubsetLaw ==
    req.pc = "discovered" =>
        \A i \in 1..Len(req.per_story) :
            /\ allowedOf(req.per_story[i]) \subseteq symbols(req.per_story[i])
            /\ symbols(req.per_story[i]) \subseteq SeqRange(req.union)

\* a verified response in which both inclusions are strict: one story keeps
\* a non-empty proper part of its candidates, another story's candidates
\* are a proper part of the union
C1_Witness ==
    /\ req.pc = "discovered"
    /\ req.verify
    /\ \E i \in 1..Len(req.per_story) :
          /\ allowedOf(req.per_story[i]) # {}
          /\ allowedOf(req.per_story[i]) # symbols(req.per_story[i])
    /\ \E j \in 1..Len(req.per_story) :
          symbols(req.per_story[j]) # SeqRange(req.union)


\* ------------------------------------------------------------------------
\* The call history (SpecCalls)
\* ------------------------------------------------------------------------
Ev == log
Calls == 1..Len(Ev)

\* the calls for the key of call j, in the order they were made
KeyCalls(j) == { i \in Calls : yh_key(Ev[i].q) = yh_key(Ev[j].q) }
Nth(j) == Cardinality({ i \in KeyCalls(j) : i <= j })

\* the calls whose external query had answered with a JSON payload, for
\* the key of call j, before call j was made; and the last of them
Stores(j) ==
    { i \in KeyCalls(j) \cap Returned :
          Ev[i].queried /\ Ev[i].got.kind = "json" /\ Ev[i].s1 < Ev[j].s0 }
LastStore(j) == CHOOSE i \in Stores(j) : \A k \in Stores(j) : Ev[k].s1 <= Ev[i].s1

\* C2 (as stated): two calls for the same key made within 900 seconds of
\* each other trigger exactly one external query, and a third call made
\* after the entry's TTL has expired triggers a second external query.
C2_TwoCallsOneQuery ==
    \A i, j \in Calls :
        ( /\ i < j /\ j \in KeyCalls(i)
          /\ Nth(i) = 1 /\ Nth(j) = 2
          /\ Ev[j].t0 - Ev[i].t0 <= _TTL )
        => /\ Ev[i].queried /\ ~Ev[j].queried
           /\ \A k \in KeyCalls(i) :
                 (Nth(k) = 3 /\ Ev[k].t0 - Ev[i].t0 > _TTL) => Ev[k].queried

\* C2 (amended): a call is served from the cache, without an external
\* query, exactly when an external query for its key had answered with a
\* JSON payload before the call was made, the last such payload is not the
\* JSON null, and it was stored at most 900 seconds before the call; every
\* other call -- the first for a key, one after a failed query, one made
\* while the first is still waiting, one made more than 900 seconds after
\* the last store -- issues an external query of its own.
C2_CacheTTL ==
    \A j \in Calls :
        ~Ev[j].queried <=>
            /\ Stores(j) # {}
            /\ Ev[LastStore(j)].got.data # None
            /\ Ev[j].t0 - Ev[LastStore(j)].t1 <= _TTL

\* three calls for one key: the first queries and stores, the second is
\* served from the cache, the third comes after the TTL and queries again
C2_Witness ==
    /\ Len(Ev) = 3
    /\ KeyCalls(1) = {1, 2, 3}
    /\ Ev[1].queried /\ Ev[1].got.kind = "json" /\ Ev[1].got.data # None
    /\ ~Ev[2].queried /\ Ev[2].got.kind = "hit"
    /\ Ev[2].t0 - Ev[1].t1 <= _TTL
    /\ Ev[3].queried /\ Ev[3].t0 - Ev[1].t1 > _TTL
    /\ Ev[3].got.kind = "json"

\* ------------------------------------------------------------------------
\* Discover with verification (Spec)
\* ------------------------------------------------------------------------
\* the external lookup of call c was answered (now or earlier, from the
\* cache) with a payload that lists, ahead of any malformed record, a
\* record whose symbol is sym up to letter case
Answered(c) == c.got.kind \in {"hit", "json"}
ListsSymbol(d, sym) ==
    /\ d.t = "dict"
    /\ "quotes" \in DOMAIN d.v
    /\ d.v.quotes.t = "list"
    /\ \E k \in 1..Len(d.v.quotes.v) :
          /\ \A m \in 1..k : d.v.quotes.v[m].t = "dict"
          /\ "symbol" \in DOMAIN d.v.quotes.v[k].v
          /\ d.v.quotes.v[k].v.symbol.t = "str"
          /\ upper(d.v.quotes.v[k].v.symbol.v) = sym
Matched(c) == Answered(c) /\ ListsSymbol(c.got.data, c.q)

VerifiedSymbols == { upper(req.verified[k].v.symbol.v) : k \in 1..Len(req.verified) }

C4_NoUnhandledFailure == req.pc # "raised"

\* ------------------------------------------------------------------------
\* No negative caching (SpecCalls)
\* ------------------------------------------------------------------------
Failed(j) == j \in Returned /\ Ev[j].got.kind \in Failures

\* the calls for the key of call j whose external query answered with a
\* JSON payload after event number s
StoresSince(j, s) ==
    { i \in KeyCalls(j) \cap Returned :
          Ev[i].queried /\ Ev[i].got.kind = "json" /\ Ev[i].s1 > s }

CanonicalShape(sym) ==
    \E n \in 1..5, m \in 0..2 :
        /\ Len(sym) = n + (IF m = 0 THEN 0 ELSE m + 1)
        /\ \A i \in 1..n : sym[i] \in UpperLetters
        /\ m > 0 => /\ sym[n + 1] = "."
                    /\ \A i \in (n + 2)..Len(sym) : sym[i] \in UpperLetters

Responded == req.pc = "discovered"
Results == { req.per_story[i] : i \in 1..Len(req.per_story) }
Inputs == { req.stories[i] : i \in 1..Len(req.stories) }

\* C6: every candidate symbol emitted for a story, whichever matcher
\* proposed it, is uppercase, has the canonical shape (1-5 letters with an
\* optional dot and 1-2 letter suffix), is at most 6 characters long and is
\* not in the stop-list; so no stop-listed token appears in a story's
\* candidates or in union_candidates.
C6_CandidatesValid ==
    Responded =>
        /\ \A ps \in Results : \A sym \in symbols(ps) :
              /\ sym = upper(sym)
              /\ CanonicalShape(sym)
              /\ Len(sym) <= 6
              /\ sym \notin STOP
        /\ SeqRange(req.union) \cap STOP = {}

\* a story with the cashtag of a stop-listed token in its title and a keep
\* list in a comment: the listed symbol is the only candidate
C6_Witness ==
    /\ Responded
    /\ \E s \in Inputs : s.title = <<"$","E","T","F">> /\ s.comments # <<>>
    /\ req.union = <<AB>>

Count(t, v) == CASE v = 1 -> t.keep [] v = 2 -> t.cut [] v = 3 -> t.sell
ListTag(v) == ListPrefix \o capitalize(Verbs[v])

Tagged(ps, sym, v) ==
    \E i \in 1..Len(ps.candidates) :
        /\ ps.candidates[i].symbol = sym
        /\ ListTag(v) \in SeqRange(ps.candidates[i].reasons)
Tallied(ps, sym, v) ==
    \E i \in 1..Len(ps.tallies) :
        ps.tallies[i].ticker = sym /\ Count(ps.tallies[i], v) > 0
Tickers(ps) == { ps.tallies[i].ticker : i \in 1..Len(ps.tallies) }

\* C7 (as stated): within one story's result, every symbol with a tally
\* count greater than zero for a verb is a candidate of the story carrying
\* the matching list reason, and every candidate carrying a list reason has
\* a tally count greater than zero for that verb.
C7_TalliesMatchReasons ==
    Responded =>
        \A ps \in Results : \A v \in 1..3 :
            \A sym \in Tickers(ps) \cup symbols(ps) :
                Tallied(ps, sym, v) <=> Tagged(ps, sym, v)

\* C7 (amended): every candidate carrying a list reason has a tally count
\* greater than zero for that verb; a symbol with a tally count greater
\* than zero for a verb has the canonical shape, and it is a candidate
\* carrying the matching list reason exactly when it is at most 6
\* characters long and not stop-listed -- a listed symbol that is
\* stop-listed or longer than 6 characters is tallied without being a
\* candidate.
C7_TalliesCoverReasons ==
    Responded =>
        \A ps \in Results : \A v \in 1..3 :
            /\ \A sym \in symbols(ps) :
                  Tagged(ps, sym, v) => Tallied(ps, sym, v)
            /\ \A sym \in Tickers(ps) :
                  Tallied(ps, sym, v) =>
                      /\ CanonicalShape(sym)
                      /\ Tagged(ps, sym, v) <=> (Len(sym) <= 6 /\ sym \notin STOP)
                      /\ sym \in symbols(ps) <=> (Len(sym) <= 6 /\ sym \notin STOP)

\* a sell list of a stop-listed token in the title and a keep list in a
\* comment: ETF is tallied and is no candidate, AB is tallied and tagged
C7_Witness ==
    /\ Responded
    /\ \E ps \in Results :
          /\ Tallied(ps, <<"E","T","F">>, 3)
          /\ <<"E","T","F">> \notin symbols(ps)
          /\ Tallied(ps, AB, 1) /\ Tagged(ps, AB, 1)
          /\ ~Tallied(ps, AB, 3) /\ ~Tagged(ps, AB, 3)

AAPL == <<"A","A","P","L">>
NVDA == <<"N","V","D","A">>
OXY == <<"O","X","Y">>
KeepTag == ListPrefix \o <<"K","e","e","p">>

\* C8 (as stated): extraction on a story whose only text is
\* "$NVDA and (OXY) look strong, Keep: NVDA, AAPL" yields exactly the
\* candidates AAPL {list:Keep}, NVDA {cashtag, list:Keep} and OXY {paren}.
C8_ScenarioAsStated ==
    (Responded /\ req.stories = <<ScenarioStory>>) =>
        req.per_story[1].candidates =
            << [symbol |-> AAPL, reasons |-> <<KeepTag>>],
               [symbol |-> NVDA, reasons |-> <<R_cashtag, KeepTag>>],
               [symbol |-> OXY, reasons |-> <<R_paren>>] >>

\* C8 (amended): extraction on that story yields exactly the candidates
\* AAPL {allcaps}, NVDA {allcaps, cashtag} and OXY {allcaps, paren} and no
\* tally: the keep list does not start its line, so it is not recognised as
\* a list, and every bare uppercase token is tagged allcaps.
C8_Scenario ==
    (Responded /\ req.stories = <<ScenarioStory>>) =>
        /\ req.per_story[1].candidates =
              << [symbol |-> AAPL, reasons |-> <<R_allcaps>>],
                 [symbol |-> NVDA, reasons |-> <<R_allcaps, R_cashtag>>],
                 [symbol |-> OXY, reasons |-> <<R_allcaps, R_paren>>] >>
        /\ req.per_story[1].tallies = <<>>

C8_Witness ==
    /\ Responded
    /\ req.stories = <<ScenarioStory>>
    /\ Len(req.per_story[1].candidates) = 3

\* ------------------------------------------------------------------------
\* Resolve: the two groups of calls (Spec)
\* ------------------------------------------------------------------------
FanFns == { req.fan[i].fn : i \in 1..Len(req.fan) }
Issued == { i \in 1..Len(req.fan) : req.fan[i].st # "new" }
Resolving == req.pc \in {"tickers", "names"}

C10_EventuallyResponds ==
    Gathering ~> (req.pc \in {"discovered", "resolved"})

\* What holds of a stalled lookup: every request whose fan-out has begun
\* ends, with a response or with the exception of C4; a call that timed out
\* yields None and changes the result of no other call; the request ends
\* only when every call of its last fan-out has returned; and a request
\* ends in an exception only if a call returned a record whose symbol is
\* not a string.
C10_Terminates == Gathering ~> Finished

C10_TimeoutIsNotFound ==
    /\ [](\A i \in 1..Len(req.fan) :
              req.fan[i].got.kind = "timeout" => req.fan[i].res = None)
    /\ [][Gathering =>
              \A i \in 1..Len(req.fan) :
                  req.fan[i].st = "done" /\ req'.pc = req.pc
                      => req'.fan[i] = req.fan[i]]_vars
    /\ [][(Gathering /\ req'.pc # req.pc) => AllDone]_vars
    /\ [](req.pc = "raised" =>
              \E i \in 1..Len(req.verified \o req.mapped) :
                  (req.verified \o req.mapped)[i].v.symbol.t # "str")

\* ------------------------------------------------------------------------
\* Discover: the union (Spec)
\* ------------------------------------------------------------------------
Ascending(xs) == \A i \in 1..(Len(xs) - 1) : StrLess(xs[i], xs[i + 1])

\* C11: in every Discover response, union_candidates is exactly the set of
\* symbols that appear in at least one story's candidates list, listed in
\* ascending order without duplicates.
C11_UnionLaw ==
    Responded =>
        /\ SeqRange(req.union) =
              UNION { symbols(req.per_story[i]) : i \in 1..Len(req.per_story) }
        /\ Ascending(req.union)

\* a verified response for two stories with different candidate sets that
\* share a symbol: the union lists the shared symbol once
C11_Witness ==
    /\ Responded /\ req.verify
    /\ Len(req.per_story) = 2
    /\ symbols(req.per_story[1]) # symbols(req.per_story[2])
    /\ symbols(req.per_story[1]) \cap symbols(req.per_story[2]) # {}
    /\ Len(req.union) = 2

\* ------------------------------------------------------------------------
\* Extraction is a function of the story (Spec)
\* ------------------------------------------------------------------------
\* the extraction of story s, computed apart from any request
Extracted(s) == IF s \in StoryPool THEN Detected[s] ELSE detect_from_story(s)
Column(xs, f) == [i \in 1..Len(xs) |-> xs[i][f]]

OwnStores(j) == { i \in Stores(j) : Ev[i].fn = Ev[j].fn }

\* C13 (as stated): verifySymbol and resolveName use disjoint cache keys:
\* an entry written by one is never read by the other, so a call issues
\* its own external query unless a call of the same function had stored an
\* answer for the same string before.
C13_DisjointKeys ==
    \A j \in Calls : OwnStores(j) = {} => Ev[j].queried

\* C13 (amended): verifySymbol and resolveName share one cache key per
\* query term, "yh:" + term.  The cache holds at most one entry per term,
\* and a call made after a call of the other function had stored an answer
\* for the same string -- the last answer stored for it, not the JSON null
\* and at most 900 seconds old -- issues no external query: it is served
\* that payload and derives its own result from it.
C13_SharedKey ==
    /\ DOMAIN _cache \subseteq { yh_key(q) : q \in Terms }
    /\ \A j \in Calls :
          (Stores(j) # {} /\ Ev[LastStore(j)].fn # Ev[j].fn) =>
              LET i == LastStore(j)
              IN ( /\ Ev[i].got.data # None
                   /\ Ev[j].t0 - Ev[i].t1 <= _TTL )
                 => /\ ~Ev[j].queried
                    /\ Ev[j].got = [kind |-> "hit", data |-> Ev[i].got.data]
                    /\ Ev[j].res = call_result(Ev[j].fn, Ev[j].q, Ev[i].got.data)

\* verify_symbol("NONE") queries and stores; resolve_name("NONE") is then
\* served the stored payload and picks another record from it
C13_Witness ==
    /\ Len(Ev) >= 2
    /\ Ev[1].fn = "verify_symbol" /\ Ev[2].fn = "resolve_name"
    /\ Ev[1].q = NONE /\ Ev[2].q = NONE
    /\ Ev[1].queried /\ Ev[1].got.kind = "json"
    /\ ~Ev[2].queried /\ Ev[2].got.kind = "hit"
    /\ Ev[1].res # None /\ Ev[2].res # None /\ Ev[1].res # Ev[2].res

\* ------------------------------------------------------------------------
\* cache_get, as seen at the start of a call (SpecCalls)
\* ------------------------------------------------------------------------
\* the step is the start of a call; the call started and the key it reads
Starts == Len(log') = Len(log) + 1
Started == log'[Len(log')]
StartedKey == yh_key(Started.q)
Without(cache, key) == [k \in DOMAIN cache \ {key} |-> cache[k]]

\* C14: cache get(key) returns the stored payload when an entry exists and
\* its age is at most 900 seconds (an age of exactly 900 s is still a hit)
\* and leaves the cache, the entry's timestamp included, unchanged; when
\* the entry is older than 900 seconds it removes the entry and returns a
\* miss; when there is no entry it returns a miss and changes nothing.  (A
\* stored JSON null is returned like any payload; the caller then queries.)
C14_CacheGet ==
    [][ Starts =>
          IF StartedKey \notin DOMAIN _cache
          THEN Started.queried /\ _cache' = _cache
          ELSE IF now - _cache[StartedKey].ts <= _TTL
          THEN /\ _cache' = _cache
               /\ IF _cache[StartedKey].data = None
                  THEN Started.queried
                  ELSE /\ ~Started.queried
                       /\ Started.got = [kind |-> "hit",
                                          data |-> _cache[StartedKey].data]
          ELSE /\ Started.queried
               /\ _cache' = Without(_cache, StartedKey) ]_vars

\* an entry stored at time 0 has been read at the age of exactly 900
\* seconds: the call was served from it and the entry still carries the
\* timestamp 0
C14_Witness ==
    /\ now = _TTL
    /\ \E j \in Calls :
          /\ Ev[j].got.kind = "hit" /\ Ev[j].t0 = _TTL
          /\ Stores(j) # {} /\ Ev[LastStore(j)].t1 = 0
          /\ yh_key(Ev[j].q) \in DOMAIN _cache
          /\ _cache[yh_key(Ev[j].q)].ts = 0

\* ------------------------------------------------------------------------
\* The age of what a call is served (SpecCalls)
\* ------------------------------------------------------------------------
Hit(j) == Ev[j].got.kind = "hit"
\* seconds between the last store for call j's key and the start of call j
Age(j) == Ev[j].t0 - Ev[LastStore(j)].t1

\* C15 (as stated): a cache entry is valid only while the time since its
\* insertion is below the TTL: no call is served a payload whose age is
\* not below 900 seconds.
C15_AgeBelowTTL ==
    \A j \in Calls : Hit(j) => (Stores(j) # {} /\ Age(j) < _TTL)

\* C15 (amended): a cache entry is valid while the time since its
\* insertion is at most the TTL.  A call served from the cache is served
\* the last payload stored for its key, at an age of at most 900 seconds
\* (exactly 900 included); a call made when that payload is older issues
\* an external query, and when the query fails the call returns None, not
\* the expired payload.
C15_NoStaleRead ==
    \A j \in Calls :
        /\ Hit(j) =>
              /\ Stores(j) # {} /\ Age(j) <= _TTL
              /\ Ev[j].got.data = Ev[LastStore(j)].got.data
        /\ (Stores(j) # {} /\ Age(j) > _TTL) =>
              /\ Ev[j].queried
              /\ Failed(j) => Ev[j].res = None

\* an answer stored at time 0, then a call for the same key 901 seconds
\* later whose own query timed out: it returned None and the expired
\* entry is gone
C15_Witness ==
    /\ Len(Ev) >= 2
    /\ 1 \in Stores(2) /\ Ev[1].got.data # None /\ Ev[1].res # None
    /\ Age(2) = _TTL + 1
    /\ Ev[2].queried /\ Ev[2].got.kind = "timeout" /\ Ev[2].res = None
    /\ yh_key(Ev[2].q) \notin DOMAIN _cache

\* ------------------------------------------------------------------------
\* Concurrent calls and the cache (SpecCalls)
\* ------------------------------------------------------------------------
\* the calls whose external query for key has answered with a JSON payload
\* so far, and the one that answered last
Writers(key) ==
    { i \in Returned :
          Ev[i].queried /\ Ev[i].got.kind = "json" /\ yh_key(Ev[i].q) = key }
LastWriter(key) ==
    CHOOSE i \in Writers(key) : \A k \in Writers(key) : Ev[k].s1 <= Ev[i].s1
Overlap(i, j) == Ev[i].s0 < Ev[j].s0 /\ Ev[j].s0 < Ev[i].s1

\* C16: under every interleaving of concurrent calls, two calls that both
\* miss the same key and both query included, the cache holds at most one
\* entry per key, the entry is the whole payload the service returned to
\* the query that answered last for that key's term, stamped with the time
\* of that answer (last write wins), and each call returns the result
\* derived from the payload it was itself given.
C16_LastWriteWins ==
    /\ Cardinality(DOMAIN _cache) <= Cardinality({ Ev[i].q : i \in Returned })
    /\ \A key \in DOMAIN _cache :
          /\ Writers(key) # {}
          /\ _cache[key] = [ts |-> Ev[LastWriter(key)].t1,
                            data |-> Ev[LastWriter(key)].got.data]
    /\ \A j \in Returned :
          /\ Ev[j].res = IF Answered(Ev[j])
                         THEN call_result(Ev[j].fn, Ev[j].q, Ev[j].got.data)
                         ELSE None
          /\ Hit(j) => /\ Stores(j) # {}
                       /\ Ev[j].got.data = Ev[LastStore(j)].got.data

\* two calls for one key that both missed and both queried: the first to
\* be answered got the JSON null, the second a payload with a match; the
\* cache holds the second payload and each call returned its own result
C16_Witness ==
    \E i, j \in Returned :
        /\ i # j /\ Ev[i].q = Ev[j].q
        /\ Overlap(i, j) \/ Overlap(j, i)
        /\ Ev[i].queried /\ Ev[j].queried
        /\ Ev[i].got.kind = "json" /\ Ev[j].got.kind = "json"
        /\ Ev[i].s1 < Ev[j].s1
        /\ Ev[i].got.data = None /\ Ev[i].res = None
        /\ Ev[j].got.data # None /\ Ev[j].res # None
        /\ _cache[yh_key(Ev[j].q)].data = Ev[j].got.data

\* ------------------------------------------------------------------------
\* The order in which the fan-out calls complete (Spec)
\* ------------------------------------------------------------------------
\* what call c makes of the payload it was given, and the records of a
\* fan-out in the order of its calls
OwnResult(c) ==
    IF Answered(c) THEN call_result(c.fn, c.q, c.got.data) ELSE None
Expected(fan) == SelectSeq([i \in 1..Len(fan) |-> OwnResult(fan[i])], Truthy)
UpperSymbols(xs) == { upper(xs[i].v.symbol.v) : i \in 1..Len(xs) }

\* C17: the Discover and Resolve responses do not depend on the order in
\* which the fan-out calls complete.  The call at position i is the one
\* for the i-th sorted input; a call that completes changes no other
\* call's result; and the response is made of what each call was given and
\* of its position alone: verified (and mapped) list the records in the
\* order of the sorted inputs, allowed_tickers is the sorted set of their
\* symbols.
C17_OrderIndependent ==
    /\ [](req.pc = "verify" =>
              \A i \in 1..Len(req.fan) : req.fan[i].q = req.union[i])
    /\ [](req.pc = "tickers" =>
              \A i \in 1..Len(req.fan) : req.fan[i].q = req.tickers[i])
    /\ [](req.pc = "names" =>
              \A i \in 1..Len(req.fan) : req.fan[i].q = req.names[i])
    /\ [][Gathering =>
              \A i \in 1..Len(req.fan) :
                  (req.fan[i].st = "done" /\ req'.pc = req.pc)
                      => req'.fan[i] = req.fan[i]]_vars
    /\ [][(req.pc = "verify" /\ req'.pc = "discovered") =>
              /\ req'.verified = Expected(req.fan)
              /\ req'.allowed = sorted(UpperSymbols(Expected(req.fan)))]_vars
    /\ [][(req.pc = "tickers" /\ req'.pc # "tickers") =>
              req'.verified = Expected(req.fan)]_vars
    /\ [][(req.pc = "names" /\ req'.pc # "names") =>
              /\ req'.verified = req.verified
              /\ req'.mapped = Expected(req.fan)]_vars
    /\ [](req.pc = "resolved" =>
              req.allowed = sorted(UpperSymbols(req.verified \o req.mapped)))

\* a verified Discover response for two symbols whose lookups completed
\* against the order of the list (the answer for the first symbol was
\* stored later than that for the second): verified and allowed_tickers
\* are in the order of the symbols all the same
C17_Witness ==
    /\ req.pc = "discovered" /\ req.verify
    /\ Len(req.union) = 2 /\ Len(req.verified) = 2
    /\ \A i \in 1..2 : req.fan[i].got.kind = "json"
    /\ \A i \in 1..2 : yh_key(req.union[i]) \in DOMAIN _cache
    /\ _cache[yh_key(req.union[1])].ts > _cache[yh_key(req.union[2])].ts
    /\ \A i \in 1..2 : upper(req.verified[i].v.symbol.v) = req.union[i]
    /\ req.allowed = req.union

\* ------------------------------------------------------------------------
\* What verify_symbol returns (Spec)
\* ------------------------------------------------------------------------
\* record q carries a symbol that equals sym up to letter case
EqualsCI(q, sym) ==
    /\ q.t = "dict"
    /\ "symbol" \in DOMAIN q.v
    /\ q.v.symbol.t = "str"
    /\ upper(q.v.symbol.v) = upper(sym)

\* the records of payload d in their ranked order (none when d is not a
\* search result), and the first of them that equals sym up to case; a
\* record that is no dict ends the search, the call having failed on it
Ranked(d) ==
    IF d.t = "dict" /\ "quotes" \in DOMAIN d.v /\ d.v.quotes.t = "list"
    THEN d.v.quotes.v ELSE <<>>
FirstEqual(d, sym) ==
    LET qs == Ranked(d)
        ends == { k \in 1..Len(qs) : qs[k].t # "dict" \/ EqualsCI(qs[k], sym) }
    IN  IF ends = {} THEN None
        ELSE LET k == CHOOSE x \in ends : \A y \in ends : x <= y
             IN IF qs[k].t # "dict" THEN None ELSE VerifiedRecord(qs[k])

\* C18: verifySymbol(sym) returns the first record, in the ranked order of
\* the response, whose symbol field equals sym case-insensitively, and
\* "not found" when no record matches; the symbol of the record returned
\* equals sym case-insensitively; and it is the same whether the response
\* came from the cache or was fetched live.
C18_FirstMatchReturned ==
    \A i \in 1..Len(req.fan) :
        LET c == req.fan[i]
        IN (c.fn = "verify_symbol" /\ c.st = "done" /\ Answered(c)) =>
              /\ c.res = FirstEqual(c.got.data, c.q)
              /\ c.res # None =>
                    /\ c.res.v.symbol.t = "str"
                    /\ upper(c.res.v.symbol.v) = upper(c.q)

\* ------------------------------------------------------------------------
\* The tally counts (SpecExtract)
\* ------------------------------------------------------------------------
\* the valid tokens of the symbol list of text block b when b is a
\* recommendation line of verb v (none otherwise), and the number of times
\* sym occurs among them
ListedIn(b, v) ==
    LET m == ACTION_RE(_clean(b))
    IN  IF m.ok /\ m.action = Verbs[v] THEN _split_symbols(m.rest) ELSE <<>>
TimesIn(b, sym, v) ==
    Cardinality({ k \in 1..Len(ListedIn(b, v)) : ListedIn(b, v)[k] = sym })

\* occurrences of sym in the lists of verb v over a sequence of text blocks
RECURSIVE Occurrences(_, _, _)
Occurrences(blocks, sym, v) ==
    IF blocks = <<>> THEN 0
    ELSE TimesIn(Head(blocks), sym, v) + Occurrences(Tail(blocks), sym, v)

Listed(s) ==
    UNION { SeqRange(ListedIn(blocksOf(s)[i], v)) :
                i \in 1..Len(blocksOf(s)), v \in 1..3 }
\* the count reported for sym and verb v (0 when sym has no tally entry)
TallyCount(ps, sym, v) ==
    IF sym \in Tickers(ps)
    THEN Count(ps.tallies[CHOOSE i \in 1..Len(ps.tallies) :
                              ps.tallies[i].ticker = sym], v)
    ELSE 0

\* C19: for every story, symbol and verb, the tally count equals the
\* number of occurrences of the symbol as a valid token in the symbol
\* lists of all recommendation lines of that verb across the story's text
\* blocks (a symbol repeated in one line counts once per occurrence, the
\* counts of several lines add up); all counts are non-negative and every
\* tally entry has at least one count greater than zero.
C19_TallyCounts ==
    Responded =>
        \A i \in 1..Len(req.stories) :
            LET s == req.stories[i]
                ps == req.per_story[i]
            IN /\ \A sym \in Tickers(ps) \cup Listed(s) : \A v \in 1..3 :
                     TallyCount(ps, sym, v) = Occurrences(blocksOf(s), sym, v)
               /\ \A k \in 1..Len(ps.tallies) :
                     /\ \A v \in 1..3 : Count(ps.tallies[k], v) >= 0
                     /\ \E v \in 1..3 : Count(ps.tallies[k], v) > 0

\* a keep list in the title and a keep list in a comment that names the
\* same symbol twice: the symbol's keep count is 3, its other counts are 0
C19_Witness ==
    /\ Responded
    /\ Len(req.stories) = 1
    /\ TimesIn(req.stories[1].title, AB, 1) = 1
    /\ req.stories[1].comments # <<>>
    /\ TimesIn(req.stories[1].comments[1], AB, 1) = 2
    /\ req.per_story[1].tallies = << [ticker |-> AB, keep |-> 3, cut |-> 0, sell |-> 0] >>

\* ------------------------------------------------------------------------
\* A response without a match is cached (SpecCalls)
\* ------------------------------------------------------------------------
\* call j is a verify_symbol call made within the TTL of the last answer
\* stored for its symbol, that answer was fetched by a verify_symbol call
\* and held no match
AfterNoMatch(j) ==
    /\ Ev[j].fn = "verify_symbol"
    /\ Stores(j) # {}
    /\ Ev[LastStore(j)].fn = "verify_symbol"
    /\ Ev[LastStore(j)].res = None
    /\ Age(j) <= _TTL

\* C20 (as stated): a successful response is cached even when it contains
\* no matching record: after verifySymbol(sym) returned "not found"
\* because the response held no match, a second verifySymbol(sym) within
\* the TTL returns "not found" without issuing a new external query.
C20_NoMatchCached ==
    \A j \in Calls :
        AfterNoMatch(j) => (~Ev[j].queried /\ Ev[j].res = None)

\* C20 (amended): the same, unless the response body was the JSON value
\* null: that body is stored too, but the stored null is never taken for a
\* hit, so the second call issues a new external query.
C20_NoMatchCachedUnlessNull ==
    \A j \in Calls :
        AfterNoMatch(j) =>
            IF Ev[LastStore(j)].got.data # None
            THEN /\ ~Ev[j].queried /\ Ev[j].res = None
                 /\ Ev[j].got = [kind |-> "hit", data |-> Ev[LastStore(j)].got.data]
            ELSE Ev[j].queried

\* verify_symbol("AB") was answered with an empty list of records and
\* returned None; a second verify_symbol("AB") 900 seconds later returned
\* None from the cache
C20_Witness ==
    /\ Len(Ev) >= 2
    /\ Ev[1].fn = "verify_symbol" /\ Ev[2].fn = "verify_symbol"
    /\ Ev[1].q = AB /\ Ev[2].q = AB
    /\ Ev[1].queried /\ Ev[1].got.kind = "json" /\ Ev[1].got.data # None
    /\ Ev[1].res = None
    /\ Stores(2) = {1} /\ Age(2) = _TTL
    /\ ~Ev[2].queried /\ Ev[2].got.kind = "hit" /\ Ev[2].res = None

\* ------------------------------------------------------------------------
\* Where a recommendation list counts (SpecExtract)
\* ------------------------------------------------------------------------
\* verb v is the first token of text block b, followed by a colon
VerbFirst(b, v) ==
    LET p == skipWs(b, 1)
    IN  /\ StartsAt(lower(b), p, Verbs[v])
        /\ CharAt(b, skipWs(b, p + Len(Verbs[v]))) = ":"

\* the valid tokens that follow the colon of such a block, to its end
HeadTokens(b, v) ==
    IF ~VerbFirst(b, v) THEN {}
    ELSE LET c == _clean(b)
             colon == skipWs(c, 1 + Len(Verbs[v]))
         IN SeqRange(_split_symbols(SubSeq(c, colon + 1, Len(c))))

\* the symbols listed under verb v at the head of some block of story s
HeadListed(s, v) ==
    UNION { HeadTokens(blocksOf(s)[i], v) : i \in 1..Len(blocksOf(s)) }

\* C21: a "Keep/Cut/Sell:" list produces tallies and list reasons if and
\* only if its verb is the first token of a text block.  A symbol has a
\* count for a verb exactly when it is a valid token of a list of that
\* verb that starts a block, and it carries the list reason of the verb
\* exactly when it is moreover an acceptable candidate; a list that
\* follows other text in its block, on the same or on a later line,
\* contributes no tally and no list reason.
C21_ListsStartBlocks ==
    Responded =>
        \A i \in 1..Len(req.stories) : \A v \in 1..3 :
            LET s == req.stories[i]
                ps == req.per_story[i]
            IN \A sym \in Tickers(ps) \cup symbols(ps) \cup HeadListed(s, v) :
                  /\ Tallied(ps, sym, v) <=> sym \in HeadListed(s, v)
                  /\ Tagged(ps, sym, v) <=>
                        /\ sym \in HeadListed(s, v)
                        /\ Len(sym) <= 6 /\ sym \notin STOP

\* the story whose title has a sell list on its second line and whose
\* comment is a cut list: the cut list is tallied and tagged, the sell
\* list leaves no trace
C21_Witness ==
    /\ Responded
    /\ req.stories = <<MultiLineStory>>
    /\ req.per_story[1].tallies =
          << [ticker |-> AB, keep |-> 0, cut |-> 1, sell |-> 0] >>
    /\ Tagged(req.per_story[1], AB, 2)
    /\ ~Tagged(req.per_story[1], AB, 3)
    /\ <<"E","T","F">> \notin Tickers(req.per_story[1])

\* ------------------------------------------------------------------------
\* Discover without verification (Spec)
\* ------------------------------------------------------------------------
\* the request is a Discover request that asks for no verification or has
\* nothing to verify
Unverified(r) ==
    /\ r.pc \in {"verify", "discovered"}
    /\ ~r.verify \/ r.union = <<>>

\* C22: a Discover request with verify = false, or with an empty
\* union_candidates, issues no external query and leaves the cache
\* unchanged: it is answered in the step in which it arrives, without any
\* verify_symbol call.  Its verified list is empty, its top-level
\* allowed_tickers equals union_candidates, and every story's
\* allowed_tickers is that story's full set of candidate symbols.
C22_UnverifiedFrame ==
    /\ [][(req.pc = "idle" /\ Unverified(req')) =>
              /\ req'.pc = "discovered"
              /\ req'.fan = <<>>
              /\ _cache' = _cache]_vars
    /\ [](Unverified(req) =>
              /\ req.pc = "discovered"
              /\ req.fan = <<>>
              /\ req.verified = <<>>
              /\ req.allowed = req.union
              /\ \A i \in 1..Len(req.per_story) :
                    /\ allowedOf(req.per_story[i]) = symbols(req.per_story[i])
                    /\ Ascending(req.per_story[i].allowed_tickers))

\* a response to a request with verify = false for two stories, given
\* while the cache holds entries of earlier requests: both symbols of the
\* union are allowed, and each story is allowed its own candidates
C22_Witness ==
    /\ req.pc = "discovered" /\ ~req.verify
    /\ DOMAIN _cache # {}
    /\ Len(req.stories) = 2 /\ Len(req.union) = 2
    /\ req.fan = <<>> /\ req.verified = <<>>
    /\ req.allowed = req.union
    /\ \E i \in 1..2 : Len(req.per_story[i].allowed_tickers) = 1
    /\ \E i \in 1..2 : Len(req.per_story[i].allowed_tickers) = 2
====
